---- MODULE Spec2Model ----
(***************************************************************************)
(* Model of task8/app.js: a page that polls a Bitcoin price and the        *)
(* USD/RUB rate, caches the rate in localStorage for one hour and renders  *)
(* one table row per refresh cycle.                                        *)
(*                                                                         *)
(* JavaScript runs one macrotask at a time; every action below is one      *)
(* macrotask (the DOMContentLoaded handler, a timer callback, the arrival  *)
(* of a network response) together with all promise continuations it       *)
(* triggers, because microtasks run before the next macrotask.             *)
(*                                                                         *)
(* Time is in milliseconds relative to the moment the page is loaded;      *)
(* cache entries written by an earlier session have negative timestamps.   *)
(* Numbers are modelled by integers: floating-point rounding is outside    *)
(* the model.                                                              *)
(***************************************************************************)
EXTENDS Integers, Sequences, FiniteSets, TLC

\* Number of timer events explored after the page is loaded; an event is one
\* setInterval callback or an hour of callbacks that are all dropped.
MaxTicks == 2

\* One refresh cycle can start at load time and one at every timer event.
MaxCycles == MaxTicks + 1

CycleIds == 1..MaxCycles

CACHE_DURATION == 3600000

TICK_MS == 60000

DEFAULT_RATE == 90

-----------------------------------------------------------------------------
(* JavaScript values that occur in the program.                            *)

Num(n) == [t |-> "num", v |-> n]

Undef == [t |-> "undef", v |-> 0]

NaN == [t |-> "nan", v |-> 0]

Str == [t |-> "str", v |-> 0]

Null == [t |-> "null", v |-> 0]

\* A member that JSON.stringify left out of the text.
Absent == [t |-> "absent", v |-> 0]

\* Number(x) for the operands of the arithmetic operators; the string is a
\* non-numeric one.
ToNumber(x) ==
  CASE x.t = "num" -> x
    [] x.t = "null" -> Num(0)
    [] OTHER -> NaN

\* a * b
Mul(a, b) ==
  IF ToNumber(a).t = "num" /\ ToNumber(b).t = "num"
  THEN Num(ToNumber(a).v * ToNumber(b).v)
  ELSE NaN

\* a - b
Sub(a, b) ==
  IF ToNumber(a).t = "num" /\ ToNumber(b).t = "num"
  THEN Num(ToNumber(a).v - ToNumber(b).v)
  ELSE NaN

\* a < b : every comparison with NaN is false
Lt(a, b) ==
  /\ ToNumber(a).t = "num"
  /\ ToNumber(b).t = "num"
  /\ ToNumber(a).v < ToNumber(b).v

\* a > b
Gt(a, b) == Lt(b, a)

-----------------------------------------------------------------------------
(* localStorage item CACHE_KEY.  k = "none": getItem returns null;         *)
(* k = "garbage": a string JSON.parse rejects; k = "obj": the JSON text of *)
(* an object whose members rate and timestamp are as given.                *)

NoItem == [k |-> "none", rate |-> Absent, timestamp |-> Absent]

Garbage == [k |-> "garbage", rate |-> Absent, timestamp |-> Absent]

\* One member of the text JSON.stringify produces for an object:
\* undefined members are omitted, NaN becomes null.
StringifyMember(x) ==
  CASE x.t = "undef" -> Absent
    [] x.t = "nan" -> Null
    [] OTHER -> x

\* JSON.stringify({rate: rate, timestamp: timestamp})
JSONstringify(rate, timestamp) ==
  [k |-> "obj", rate |-> StringifyMember(rate),
   timestamp |-> StringifyMember(timestamp)]

\* Reading a member of the object JSON.parse returns: a member the text
\* does not have reads as undefined.
ParseMember(x) == IF x.t = "absent" THEN Undef ELSE x

\* if (cachedData): null and the empty string are falsy
Truthy(item) == item.k # "none"

-----------------------------------------------------------------------------
(* Answers of the three endpoints.                                         *)

\* Rate endpoint.  neterr: fetch rejects; badjson: response.json() rejects;
\* nousd: the body parses but data.Valute or data.Valute.USD is undefined,
\* so reading data.Valute.USD.Value throws; body: data.Valute.USD is an
\* object whose member Value is as given (Undef: no such member).
RateResponses ==
  { [k |-> kk, Value |-> Undef] : kk \in {"neterr", "badjson", "nousd"} }
  \cup { [k |-> "body", Value |-> x] : x \in {Num(95), Num(0), Str, Undef} }

NoRateResponse == [k |-> "none", Value |-> Undef]

\* What a call keeps of an answer: the body, or the fact that there was none.
RateAnswered(r) == IF r.k = "body" THEN r ELSE [k |-> "error", Value |-> Undef]

\* Price endpoints.  For the primary a and b are the members last and
\* total_fees of the body, for the secondary market_price_usd and
\* trade_volume_btc.  neterr: fetch rejects; badjson: response.json()
\* rejects; http502: a response with status 502 whose body would parse;
\* body: any other response whose body parses (Undef: no such member).
PrimaryResponses ==
  { [k |-> kk, a |-> Undef, b |-> Undef] : kk \in {"neterr", "badjson"} }
  \cup { [k |-> "http502", a |-> Num(1), b |-> Num(1)] }
  \cup { [k |-> "body", a |-> x, b |-> Num(1)] : x \in {Num(1), Undef} }

SecondaryResponses ==
  { [k |-> kk, a |-> Undef, b |-> Undef] : kk \in {"neterr", "badjson"} }
  \cup { [k |-> "body", a |-> Num(3), b |-> Num(2)] }

NoPriceResponse == [k |-> "none", a |-> Undef, b |-> Undef]

\* What a call keeps of an answer: the response, or the fact that it got
\* none it could read.
PriceAnswered(r) ==
  IF r.k \in {"body", "http502"} THEN r
  ELSE [k |-> "error", a |-> Undef, b |-> Undef]

-----------------------------------------------------------------------------
(* getUsdRubRate.  A call is a record: st is the state of the promise the  *)
(* call returned, now and cached are the locals of the same names, val is  *)
(* the value the promise resolved with, fetched says whether fetch was     *)
(* called, wrote whether localStorage.setItem was called, resp is the      *)
(* answer the fetch received.                                              *)

NoRateCall ==
  [st |-> "none", now |-> 0, cached |-> NoItem, val |-> Undef,
   fetched |-> FALSE, wrote |-> FALSE, resp |-> NoRateResponse]

\* The comparison written as <=.
IsFreshInclusive(cachedData, t) ==
  ~Lt(Num(CACHE_DURATION), Sub(Num(t), ParseMember(cachedData.timestamp)))

\* now - timestamp < CACHE_DURATION
IsFresh(cachedData, t) ==
  Lt(Sub(Num(t), ParseMember(cachedData.timestamp)), Num(CACHE_DURATION))

\* The call up to its first await: lines 18-32.
getUsdRubRate(cachedData, t) ==
  LET call == [NoRateCall EXCEPT !.now = t, !.cached = cachedData] IN
  IF Truthy(cachedData) /\ cachedData.k = "garbage"
  THEN [call EXCEPT !.st = "rejected"]
  ELSE IF Truthy(cachedData) /\ IsFresh(cachedData, t)
  THEN [call EXCEPT !.st = "resolved", !.val = ParseMember(cachedData.rate)]
  ELSE [call EXCEPT !.st = "pending", !.fetched = TRUE]

\* The catch block returning the default whether or not there is a cache.
getUsdRubRateResumeDefault(call, r) ==
  IF r.k = "body"
  THEN [call EXCEPT !.st = "resolved", !.val = r.Value, !.wrote = TRUE,
                    !.resp = RateAnswered(r)]
  ELSE [call EXCEPT !.st = "resolved", !.resp = RateAnswered(r),
                    !.val = Num(DEFAULT_RATE)]

\* The catch block reading the cache without testing that there is one.
getUsdRubRateResumeNoDefault(call, r) ==
  IF r.k = "body"
  THEN [call EXCEPT !.st = "resolved", !.val = r.Value, !.wrote = TRUE,
                    !.resp = RateAnswered(r)]
  ELSE [call EXCEPT !.st = "resolved", !.resp = RateAnswered(r),
                    !.val = ParseMember(call.cached.rate)]

\* The call from the answer of the fetch to its return: lines 32-54.
getUsdRubRateResume(call, r) ==
  IF r.k = "body"
  THEN [call EXCEPT !.st = "resolved", !.val = r.Value, !.wrote = TRUE,
                    !.resp = RateAnswered(r)]
  ELSE [call EXCEPT !.st = "resolved", !.resp = RateAnswered(r),
                    !.val = IF Truthy(call.cached)
                            THEN ParseMember(call.cached.rate)
                            ELSE Num(DEFAULT_RATE)]

\* setItem left out.
StorageAfterRateKeep(call, r, item) == item

\* The value returned after a failed fetch cached as well.
StorageAfterRateAlways(call, r, item) ==
  IF r.k = "body" THEN JSONstringify(r.Value, Num(call.now))
  ELSE JSONstringify(getUsdRubRateResume(call, r).val, Num(call.now))

\* The content of the cache item after the call has resumed: line 41.
StorageAfterRate(call, r, item) ==
  IF r.k = "body" THEN JSONstringify(r.Value, Num(call.now)) ELSE item

-----------------------------------------------------------------------------
(* getBitcoinData.  st: "primary" and "secondary" while the fetch of that  *)
(* endpoint is outstanding, then the state of the returned promise; val is *)
(* the object the promise resolved with; r1 and r2 are the answers         *)
(* received from the primary and the secondary endpoint.                   *)

PricePoint(p, v) == [priceUsd |-> p, volumeBtc |-> v]

NoPricePoint == PricePoint(Undef, Undef)

NoPriceCall ==
  [st |-> "none", val |-> NoPricePoint, r1 |-> NoPriceResponse,
   r2 |-> NoPriceResponse]

\* The call up to its first await: line 64.
getBitcoinData == [NoPriceCall EXCEPT !.st = "primary"]

\* The test of the status left out.
getBitcoinDataPrimaryNo502(call, r) ==
  IF r.k \in {"body", "http502"}
  THEN [call EXCEPT !.st = "resolved", !.r1 = PriceAnswered(r), !.val = PricePoint(r.a, r.b)]
  ELSE [call EXCEPT !.st = "secondary", !.r1 = PriceAnswered(r)]

\* From the answer of the primary endpoint: lines 64-81.
getBitcoinDataPrimary(call, r) ==
  IF r.k = "body"
  THEN [call EXCEPT !.st = "resolved", !.r1 = PriceAnswered(r), !.val = PricePoint(r.a, r.b)]
  ELSE [call EXCEPT !.st = "secondary", !.r1 = PriceAnswered(r)]

\* The inner catch block returning an empty object where it throws.
getBitcoinDataSecondarySwallow(call, r) ==
  IF r.k = "body"
  THEN [call EXCEPT !.st = "resolved", !.r2 = PriceAnswered(r), !.val = PricePoint(r.a, r.b)]
  ELSE [call EXCEPT !.st = "resolved", !.r2 = PriceAnswered(r)]

\* From the answer of the secondary endpoint: lines 81-92.
getBitcoinDataSecondary(call, r) ==
  IF r.k = "body"
  THEN [call EXCEPT !.st = "resolved", !.r2 = PriceAnswered(r), !.val = PricePoint(r.a, r.b)]
  ELSE [call EXCEPT !.st = "rejected", !.r2 = PriceAnswered(r)]

-----------------------------------------------------------------------------
(* Formatting and the table.                                               *)

\* x.toLocaleString('ru-RU', ...) for a value of type number: the text is
\* represented by the number it shows and the format f used; for NaN it is
\* the not-a-number text.
toLocaleString(x, f) ==
  IF x.t = "num" THEN [fmt |-> f, n |-> x.v] ELSE [fmt |-> "NaN", n |-> 0]

\* The test of the argument replaced by a conversion to a number.
formatRubUnchecked(value) == toLocaleString(ToNumber(value), "rub")

\* formatRub: numberValue is the argument if it is a number other than NaN,
\* else 0.
formatRub(value) ==
  toLocaleString(IF value.t = "num" THEN value ELSE Num(0), "rub")

\* formatBtc
formatBtc(value) ==
  toLocaleString(IF value.t = "num" THEN value ELSE Num(0), "btc")

NoText == [fmt |-> "none", n |-> 0]

\* Content of the table body.  kind: "initial" (the page as loaded),
\* "loading" (line 139), "row" (line 175), "error" (line 190).
Tbody(kind, price, volume, total, cls, plus, change, msg) ==
  [kind |-> kind, price |-> price, volume |-> volume, total |-> total,
   changeClass |-> cls, plus |-> plus, change |-> change, msg |-> msg]

InitialTbody == Tbody("initial", NoText, NoText, NoText, "none", FALSE, NoText, "none")

LoadingTbody == Tbody("loading", NoText, NoText, NoText, "none", FALSE, NoText, "none")

ErrorTbody(msg) == Tbody("error", NoText, NoText, NoText, "none", FALSE, NoText, msg)

-----------------------------------------------------------------------------
(* State.                                                                  *)

VARIABLES
  pc,                     \* "loading" before DOMContentLoaded, then "running"
  now,                    \* new Date().getTime(), relative to the load
  ticks,                  \* timer events so far
  localStorage,           \* the item CACHE_KEY
  previousTotalRubValue,  \* Null or a number
  isFetching,
  hasTbody,               \* document has the element crypto-table-body
  hasUpdateTime,          \* document has the element last-update
  tbody,                  \* innerHTML of crypto-table-body
  updateTime,             \* textContent of last-update
  ncycles,                \* calls of updateCryptoTable that passed the guard
  cycle,                  \* per such call: where it is
  rateCall,               \* per such call: its getUsdRubRate call
  priceCall               \* per such call: its getBitcoinData call

vars ==
  <<pc, now, ticks, localStorage, previousTotalRubValue, isFetching, hasTbody,
    hasUpdateTime, tbody, updateTime, ncycles, cycle, rateCall, priceCall>>

\* What localStorage can hold when the page is loaded: nothing, a string
\* that is not JSON, or the record an earlier session wrote 30 minutes or
\* exactly one hour ago.
InitialItems ==
  {NoItem, Garbage}
  \cup { JSONstringify(Num(80), Num(ts)) : ts \in {-1800000, -3600000} }

Init ==
  /\ pc = "loading"
  /\ now = 0
  /\ ticks = 0
  /\ localStorage \in InitialItems
  /\ previousTotalRubValue = Null
  /\ isFetching = FALSE
  /\ hasTbody \in BOOLEAN
  /\ hasUpdateTime \in BOOLEAN
  /\ tbody = InitialTbody
  /\ updateTime = "initial"
  /\ ncycles = 0
  /\ cycle = [c \in CycleIds |-> "none"]
  /\ rateCall = [c \in CycleIds |-> NoRateCall]
  /\ priceCall = [c \in CycleIds |-> NoPriceCall]

-----------------------------------------------------------------------------
(* updateCryptoTable.                                                      *)

\* A join that waits for both calls and takes whatever they ended with.
PromiseAllLenient(rcall, pcall) ==
  IF rcall.st \in {"resolved", "rejected"} /\ pcall.st \in {"resolved", "rejected"}
  THEN "resolved"
  ELSE "pending"

\* Promise.all of the two calls: rejected as soon as one is, resolved when
\* both are.
PromiseAll(rcall, pcall) ==
  IF rcall.st = "rejected" \/ pcall.st = "rejected" THEN "rejected"
  ELSE IF rcall.st = "resolved" /\ pcall.st = "resolved" THEN "resolved"
  ELSE "pending"

\* error.message in the catch block
ErrorMessage(rcall, pcall) ==
  IF rcall.st = "rejected" THEN "SyntaxError" ELSE "NoBitcoinData"

marketPriceRub(usdRubRate, btcData) == Mul(btcData.priceUsd, usdRubRate)

\* The volume left out of the total.
totalRubValueNoVolume(usdRubRate, btcData) ==
  marketPriceRub(usdRubRate, btcData)

totalRubValue(usdRubRate, btcData) ==
  Mul(marketPriceRub(usdRubRate, btcData), btcData.volumeBtc)

\* The operands of the subtraction exchanged.
changeRubValueSwapped(total, prev) ==
  IF prev # Null THEN Sub(prev, total) ELSE Num(0)

changeRubValue(total, prev) ==
  IF prev # Null THEN Sub(total, prev) ELSE Num(0)

changeClass(total, prev) ==
  IF prev # Null /\ Gt(changeRubValue(total, prev), Num(0)) THEN "positive"
  ELSE IF prev # Null /\ Lt(changeRubValue(total, prev), Num(0)) THEN "negative"
  ELSE "zero"

\* The row written at line 175.
RowTbody(usdRubRate, btcData, prev) ==
  LET total == totalRubValue(usdRubRate, btcData)
      change == changeRubValue(total, prev) IN
  Tbody("row", formatRub(marketPriceRub(usdRubRate, btcData)),
        formatBtc(btcData.volumeBtc), formatRub(total),
        changeClass(total, prev), Gt(change, Num(0)), formatRub(change),
        "none")

\* Lines 147-194: the rest of the cycle once Promise.all has settled as j.
\* Gives the new values of the variables the cycle writes.
AfterAwait(j, rcall, pcall) ==
  IF j = "resolved"
  THEN IF hasUpdateTime
       THEN [st |-> "done",
             prev |-> totalRubValue(rcall.val, pcall.val),
             tbody |-> RowTbody(rcall.val, pcall.val, previousTotalRubValue),
             updateTime |-> "updated"]
       ELSE \* line 186 throws on null, line 190 runs, line 191 throws
            [st |-> "failed",
             prev |-> totalRubValue(rcall.val, pcall.val),
             tbody |-> ErrorTbody("TypeError"),
             updateTime |-> updateTime]
  ELSE [st |-> "failed",
        prev |-> previousTotalRubValue,
        tbody |-> ErrorTbody(ErrorMessage(rcall, pcall)),
        updateTime |-> IF hasUpdateTime THEN "error" ELSE updateTime]

\* Cycle c goes on after its calls have become rcall and pcall.
Continue(c, rcall, pcall) ==
  LET j == PromiseAll(rcall, pcall)
      a == AfterAwait(j, rcall, pcall) IN
  IF cycle[c] = "awaiting" /\ j # "pending"
  THEN /\ cycle' = [cycle EXCEPT ![c] = a.st]
       /\ previousTotalRubValue' = a.prev
       /\ tbody' = a.tbody
       /\ updateTime' = a.updateTime
       /\ isFetching' = FALSE
  ELSE UNCHANGED <<cycle, previousTotalRubValue, tbody, updateTime, isFetching>>

\* The guard left out: every call goes on to fetch.
BusyNever == FALSE

\* if (isFetching) return: lines 129-132.
Busy == isFetching

\* A call of updateCryptoTable at time t, up to its await.
updateCryptoTable(t) ==
  IF Busy
  THEN UNCHANGED <<localStorage, previousTotalRubValue, isFetching, tbody,
                   updateTime, ncycles, cycle, rateCall, priceCall>>
  ELSE IF ~hasTbody
  THEN \* line 139 throws on null, outside the try
       /\ isFetching' = TRUE
       /\ ncycles' = ncycles + 1
       /\ cycle' = [c \in CycleIds |-> IF c = ncycles + 1 THEN "stuck" ELSE "none"]
       /\ UNCHANGED <<localStorage, previousTotalRubValue, tbody, updateTime,
                      rateCall, priceCall>>
  ELSE LET n == ncycles + 1
           rcall == getUsdRubRate(localStorage, t)
           pcall == getBitcoinData
           j == PromiseAll(rcall, pcall)
           a == AfterAwait(j, rcall, pcall) IN
       /\ ncycles' = n
       /\ rateCall' = [c \in CycleIds |->
                         IF c = n THEN rcall
                         ELSE IF rateCall[c].st = "pending" THEN rateCall[c]
                         ELSE NoRateCall]
       /\ priceCall' = [c \in CycleIds |->
                         IF c = n THEN pcall
                         ELSE IF priceCall[c].st \in {"primary", "secondary"}
                         THEN priceCall[c]
                         ELSE NoPriceCall]
       /\ cycle' = [c \in CycleIds |->
                      IF c # n THEN "none"
                      ELSE IF j = "pending" THEN "awaiting" ELSE a.st]
       /\ isFetching' = (j = "pending")
       /\ tbody' = IF j = "pending" THEN LoadingTbody ELSE a.tbody
       /\ updateTime' = IF j = "pending" THEN updateTime ELSE a.updateTime
       /\ previousTotalRubValue' =
            IF j = "pending" THEN previousTotalRubValue ELSE a.prev
       /\ UNCHANGED localStorage

-----------------------------------------------------------------------------
(* The macrotasks.                                                         *)

\* The DOMContentLoaded handler: lines 198-204.
Load ==
  /\ pc = "loading"
  /\ pc' = "running"
  /\ updateCryptoTable(now)
  /\ UNCHANGED <<now, ticks, hasTbody, hasUpdateTime>>

\* A setInterval callback, TICK_MS after the previous one.
Tick ==
  /\ pc = "running"
  /\ ticks < MaxTicks
  /\ ticks' = ticks + 1
  /\ now' = now + TICK_MS
  /\ updateCryptoTable(now + TICK_MS)
  /\ UNCHANGED <<pc, hasTbody, hasUpdateTime>>

\* No answer arrives for an hour while a cycle is in flight: each of the
\* CACHE_DURATION / TICK_MS setInterval callbacks of that hour returns at
\* the guard of updateCryptoTable, so only the clock changes.
DroppedTicks ==
  /\ pc = "running"
  /\ isFetching
  /\ ticks < MaxTicks
  /\ ticks' = ticks + 1
  /\ now' = now + CACHE_DURATION
  /\ UNCHANGED <<pc, localStorage, previousTotalRubValue, isFetching,
                 hasTbody, hasUpdateTime, tbody, updateTime, ncycles, cycle,
                 rateCall, priceCall>>

\* The rate endpoint answers the fetch of cycle c with r.
RateAnswer(c, r) ==
  /\ rateCall[c].st = "pending"
  /\ rateCall' = [rateCall EXCEPT ![c] = getUsdRubRateResume(rateCall[c], r)]
  /\ localStorage' = StorageAfterRate(rateCall[c], r, localStorage)
  /\ Continue(c, getUsdRubRateResume(rateCall[c], r), priceCall[c])
  /\ UNCHANGED <<pc, now, ticks, hasTbody, hasUpdateTime, ncycles, priceCall>>

\* The primary price endpoint answers the fetch of cycle c with r.
PrimaryAnswer(c, r) ==
  /\ priceCall[c].st = "primary"
  /\ priceCall' = [priceCall EXCEPT ![c] = getBitcoinDataPrimary(priceCall[c], r)]
  /\ Continue(c, rateCall[c], getBitcoinDataPrimary(priceCall[c], r))
  /\ UNCHANGED <<pc, now, ticks, hasTbody, hasUpdateTime, ncycles, rateCall,
                 localStorage>>

\* The secondary price endpoint answers the fetch of cycle c with r.
SecondaryAnswer(c, r) ==
  /\ priceCall[c].st = "secondary"
  /\ priceCall' = [priceCall EXCEPT ![c] = getBitcoinDataSecondary(priceCall[c], r)]
  /\ Continue(c, rateCall[c], getBitcoinDataSecondary(priceCall[c], r))
  /\ UNCHANGED <<pc, now, ticks, hasTbody, hasUpdateTime, ncycles, rateCall,
                 localStorage>>

Next ==
  \/ Load
  \/ Tick
  \/ DroppedTicks
  \/ \E c \in CycleIds, r \in RateResponses : RateAnswer(c, r)
  \/ \E c \in CycleIds, r \in PrimaryResponses : PrimaryAnswer(c, r)
  \/ \E c \in CycleIds, r \in SecondaryResponses : SecondaryAnswer(c, r)

Spec == Init /\ [][Next]_vars

-----------------------------------------------------------------------------
(* Properties.                                                             *)

RateInFlight == { c \in CycleIds : rateCall[c].st = "pending" }

PriceInFlight == { c \in CycleIds : priceCall[c].st \in {"primary", "secondary"} }

\* A single setInterval callback runs in this step.
TimerCallback == ticks' = ticks + 1 /\ now' = now + TICK_MS

\* C1: a call of updateCryptoTable made while isFetching is true starts no
\* rate fetch and no price fetch and changes neither previousTotalRubValue
\* nor isFetching (nor anything else the cycle writes).
C1_GuardedCallIsNoOp ==
  [][ (isFetching /\ TimerCallback) =>
        UNCHANGED <<rateCall, priceCall, previousTotalRubValue, isFetching,
                    ncycles, cycle, localStorage, tbody, updateTime>> ]_vars

\* A callback has been dropped while the first cycle waits for its fetches.
C1_Witness ==
  /\ isFetching
  /\ ticks = 1
  /\ now = TICK_MS
  /\ ncycles = 1
  /\ cycle[1] = "awaiting"
  /\ RateInFlight = {1}
  /\ PriceInFlight = {1}

\* C2: whenever isFetching is false no fetch of an earlier cycle is
\* outstanding, so at no time is more than one fetch of a kind outstanding.
\* Stated for the rate fetch, the case the claim names: the price fetch has
\* failed while the rate fetch of the same cycle is pending.
C2_IdleMeansNoRateFetchOutstanding ==
  /\ ~isFetching => RateInFlight = {}
  /\ Cardinality(RateInFlight) <= 1

\* C3: a call of updateCryptoTable that has set isFetching and has ended, by
\* return or by exception, has reset isFetching.
C3_EndedCycleReleasesGuard ==
  \A c \in CycleIds :
    (c = ncycles /\ cycle[c] \in {"done", "failed", "stuck"}) => ~isFetching

\* The getUsdRubRate calls that have returned or thrown.
RateSettled == { c \in CycleIds : rateCall[c].st \in {"resolved", "rejected"} }

\* C4: every getUsdRubRate call that has ended has returned, and has
\* returned a number.
C4_RateCallYieldsNumber ==
  \A c \in RateSettled :
    rateCall[c].st = "resolved" /\ rateCall[c].val.t = "num"

\* The cache held a record with a rate and a numeric timestamp when call c
\* read it.
ReadCachedRate(c) ==
  /\ rateCall[c].st # "none"
  /\ rateCall[c].cached.k = "obj"
  /\ rateCall[c].cached.rate.t # "absent"
  /\ rateCall[c].cached.timestamp.t = "num"

\* C5: a call that read a CachedRate less than CACHE_DURATION old returned
\* the stored rate without calling fetch and without writing storage; a call
\* that read one at least CACHE_DURATION old called fetch.
C5_CacheHit ==
  \A c \in CycleIds :
    ReadCachedRate(c) =>
      IF rateCall[c].now - rateCall[c].cached.timestamp.v < 3600000
      THEN /\ rateCall[c].st = "resolved"
           /\ rateCall[c].val = rateCall[c].cached.rate
           /\ ~rateCall[c].fetched
           /\ ~rateCall[c].wrote
      ELSE rateCall[c].fetched

\* A call has been served from a record written 30 minutes before the load.
C5_Witness ==
  \E c \in CycleIds :
    /\ ReadCachedRate(c)
    /\ rateCall[c].cached.timestamp.v = -1800000
    /\ rateCall[c].st = "resolved"
    /\ rateCall[c].val = Num(80)
    /\ ~rateCall[c].fetched

\* In this step the rate fetch of call c is answered with a body that holds
\* a number.
RefreshedBy(c) ==
  /\ rateCall[c].st = "pending"
  /\ rateCall'[c].st = "resolved"
  /\ rateCall'[c].resp.k = "body"
  /\ rateCall'[c].resp.Value.t = "num"

\* A getUsdRubRate call made right after this step is a cache hit that
\* returns v.
NextCallHits(v) ==
  /\ getUsdRubRate(localStorage', now').st = "resolved"
  /\ getUsdRubRate(localStorage', now').val = v
  /\ ~getUsdRubRate(localStorage', now').fetched

\* C6 as stated: a call answered by the endpoint returns the fetched rate and
\* stores it so that the next call is a cache hit returning the same value.
C6_RefreshThenHit ==
  [][ \A c \in CycleIds :
        RefreshedBy(c) =>
          /\ rateCall'[c].val = rateCall'[c].resp.Value
          /\ localStorage'.k = "obj"
          /\ localStorage'.rate = rateCall'[c].resp.Value
          /\ NextCallHits(rateCall'[c].resp.Value) ]_vars

\* C6 amended: the stored timestamp is the clock reading taken when the call
\* started, and the next call is a hit when the clock then reads less than
\* CACHE_DURATION more than that.
C6_RefreshStoresCallTime ==
  [][ \A c \in CycleIds :
        RefreshedBy(c) =>
          /\ rateCall'[c].val = rateCall'[c].resp.Value
          /\ localStorage'.k = "obj"
          /\ localStorage'.rate = rateCall'[c].resp.Value
          /\ localStorage'.timestamp = Num(rateCall[c].now)
          /\ (now' - rateCall[c].now < 3600000
                => NextCallHits(rateCall'[c].resp.Value)) ]_vars

\* A call that found the cache expired has stored the rate 95 it fetched.
C6_Witness ==
  \E c \in CycleIds :
    /\ rateCall[c].st = "resolved"
    /\ rateCall[c].cached.k = "obj"
    /\ rateCall[c].wrote
    /\ rateCall[c].val = Num(95)
    /\ localStorage = [k |-> "obj", rate |-> Num(95),
                       timestamp |-> Num(rateCall[c].now)]

\* In this step the rate fetch of call c fails, or its answer cannot be
\* read.
FetchFailedFor(c) ==
  /\ rateCall[c].st = "pending"
  /\ rateCall'[c].st # "pending"
  /\ rateCall'[c].resp.k = "error"

\* C7: when the fetch fails for a call that read an expired CachedRate, the
\* call returns the rate of that record and the stored item stays as it is.
C7_StaleOnError ==
  [][ \A c \in CycleIds :
        (FetchFailedFor(c) /\ ReadCachedRate(c)) =>
          /\ rateCall'[c].st = "resolved"
          /\ rateCall'[c].val = rateCall[c].cached.rate
          /\ localStorage' = localStorage ]_vars

\* A call has returned the rate of the record that expired at load time.
C7_Witness ==
  \E c \in CycleIds :
    /\ ReadCachedRate(c)
    /\ rateCall[c].resp.k = "error"
    /\ rateCall[c].st = "resolved"
    /\ rateCall[c].val = Num(80)
    /\ localStorage = rateCall[c].cached

\* C8: a call that found no cache item and whose fetch failed returned 90.
C8_DefaultRate ==
  \A c \in CycleIds :
    (rateCall[c].resp.k = "error" /\ rateCall[c].cached.k = "none") =>
      (rateCall[c].st = "resolved" /\ rateCall[c].val = Num(90))

C8_Witness ==
  \E c \in CycleIds :
    /\ rateCall[c].resp.k = "error"
    /\ rateCall[c].cached.k = "none"
    /\ rateCall[c].val = Num(90)

\* C9: the stored item changes only in a step in which a rate fetch is
\* answered with a readable body, and then holds the rate of that body.
C9_OnlyRefreshWrites ==
  [][ localStorage' # localStorage =>
        \E c \in CycleIds :
          /\ rateCall[c].st = "pending"
          /\ rateCall'[c].resp.k = "body"
          /\ localStorage'.k = "obj"
          /\ ParseMember(localStorage'.rate) = rateCall'[c].resp.Value
          /\ localStorage'.timestamp = Num(rateCall[c].now) ]_vars

\* A call that found no item has filled the cache with the fetched rate.
C9_Witness ==
  \E c \in CycleIds :
    /\ rateCall[c].wrote
    /\ rateCall[c].cached.k = "none"
    /\ rateCall[c].resp = [k |-> "body", Value |-> Num(95)]
    /\ localStorage = [k |-> "obj", rate |-> Num(95),
                       timestamp |-> Num(rateCall[c].now)]

\* C10: the secondary endpoint is contacted only after the primary attempt
\* failed, by a network or parse error or by status 502; and when the
\* secondary then answers, the call returns market_price_usd as priceUsd and
\* trade_volume_btc as volumeBtc.
C10_FallbackOrder ==
  \A c \in CycleIds :
    /\ (priceCall[c].st = "secondary" \/ priceCall[c].r2.k # "none")
         => priceCall[c].r1.k \in {"error", "http502"}
    /\ priceCall[c].r1.k = "body"
         => (priceCall[c].st = "resolved" /\ priceCall[c].r2.k = "none")
    /\ priceCall[c].r1.k \in {"error", "http502"}
         => \/ priceCall[c].st = "secondary" /\ priceCall[c].r2.k = "none"
            \/ priceCall[c].st = "resolved" /\ priceCall[c].r2.k = "body"
            \/ priceCall[c].st = "rejected" /\ priceCall[c].r2.k = "error"
    /\ (priceCall[c].r1.k \in {"error", "http502"} /\ priceCall[c].r2.k = "body")
         => /\ priceCall[c].st = "resolved"
            /\ priceCall[c].val.priceUsd = priceCall[c].r2.a
            /\ priceCall[c].val.volumeBtc = priceCall[c].r2.b

\* The primary answered 502 and the call returned the secondary's data.
C10_Witness ==
  \E c \in CycleIds :
    /\ priceCall[c].r1.k = "http502"
    /\ priceCall[c].r2.k = "body"
    /\ priceCall[c].st = "resolved"
    /\ priceCall[c].val = PricePoint(Num(3), Num(2))


\* The primary attempt of price call c failed.
PrimaryFailed(c) == priceCall[c].r1.k \in {"error", "http502"}

\* C11: getBitcoinData throws exactly when the primary attempt failed and
\* the secondary attempt failed too; a call that got a readable answer from
\* either endpoint returned an object.
C11_ThrowsIffBothFail ==
  \A c \in CycleIds :
    /\ priceCall[c].st = "rejected"
         <=> (PrimaryFailed(c) /\ priceCall[c].r2.k = "error")
    /\ (priceCall[c].r1.k = "body" \/ priceCall[c].r2.k = "body")
         => priceCall[c].st = "resolved"

\* Both endpoints failed, the call threw and the cycle shows the message.
C11_Witness ==
  \E c \in CycleIds :
    /\ PrimaryFailed(c)
    /\ priceCall[c].r2.k = "error"
    /\ priceCall[c].st = "rejected"
    /\ cycle[c] = "failed"
    /\ tbody = ErrorTbody("NoBitcoinData")

\* In this step cycle c ends because one of its two calls has thrown.
EndsByRejection(c) ==
  /\ cycle[c] \in {"none", "awaiting"}
  /\ cycle'[c] \in {"done", "failed"}
  /\ (rateCall'[c].st = "rejected" \/ priceCall'[c].st = "rejected")

\* The reason shown for the failure of cycle c.
ShownReason(c) ==
  IF rateCall'[c].st = "rejected" THEN "SyntaxError" ELSE "NoBitcoinData"

C13_RateFailureNotShown ==
  \A c \in CycleIds :
    (/\ hasUpdateTime
     /\ c = ncycles
     /\ cycle[c] \in {"done", "failed"}
     /\ priceCall[c].st = "resolved") => tbody.kind = "row"

\* In this step cycle c ends with a row computed from numbers.
RendersNumbers(c) ==
  /\ cycle[c] \in {"none", "awaiting"}
  /\ cycle'[c] = "done"
  /\ rateCall'[c].val.t = "num"
  /\ priceCall'[c].val.priceUsd.t = "num"
  /\ priceCall'[c].val.volumeBtc.t = "num"
  /\ previousTotalRubValue.t \in {"null", "num"}

\* priceUsd * rate of the cycle that ends in this step.
MarketOf(c) == priceCall'[c].val.priceUsd.v * rateCall'[c].val.v

\* marketPriceLocal * volume
TotalOf(c) == MarketOf(c) * priceCall'[c].val.volumeBtc.v

\* 0 on the first successful cycle, then the difference to the previous
\* total.
ChangeOf(c) ==
  IF previousTotalRubValue = Null THEN 0
  ELSE TotalOf(c) - previousTotalRubValue.v

\* C14: a successful cycle over numbers shows priceUsd * rate, that times the
\* volume, and the difference of this total to the previous one (0 when
\* there is none); the class of the change is positive, negative or zero
\* exactly when the change is > 0, < 0 or = 0, and a leading + is shown for a
\* positive change only.
C14_SnapshotComputation ==
  [][ \A c \in CycleIds :
        RendersNumbers(c) =>
          /\ tbody'.kind = "row"
          /\ tbody'.price = [fmt |-> "rub", n |-> MarketOf(c)]
          /\ tbody'.total = [fmt |-> "rub", n |-> TotalOf(c)]
          /\ tbody'.change = [fmt |-> "rub", n |-> ChangeOf(c)]
          /\ tbody'.changeClass = "positive" <=> ChangeOf(c) > 0
          /\ tbody'.changeClass = "negative" <=> ChangeOf(c) < 0
          /\ tbody'.changeClass = "zero" <=> ChangeOf(c) = 0
          /\ tbody'.plus <=> ChangeOf(c) > 0
          /\ previousTotalRubValue = Null =>
               (tbody'.change.n = 0 /\ tbody'.changeClass = "zero") ]_vars

\* A later cycle shows a fall of the total from 3 * 95 * 2 to 1 * 95 * 1.
C14_Witness ==
  /\ ncycles > 1
  /\ cycle[ncycles] = "done"
  /\ tbody.kind = "row"
  /\ tbody.total = [fmt |-> "rub", n |-> 95]
  /\ tbody.change = [fmt |-> "rub", n |-> -475]
  /\ tbody.changeClass = "negative"
  /\ previousTotalRubValue = Num(95)


\* C15: the timer callback that follows a cycle that ended in failure is not
\* dropped: it starts a new cycle, which issues its fetches.
C15_NextTickAfterFailureStartsCycle ==
  [][ \A c \in CycleIds :
        (c = ncycles /\ cycle[c] \in {"failed", "stuck"} /\ TimerCallback) =>
          /\ ncycles' = ncycles + 1
          /\ priceCall'[ncycles'].st = "primary" ]_vars

\* A call of updateCryptoTable is made in this step: by the DOMContentLoaded
\* handler or by a setInterval callback.
Triggered == pc = "loading" \/ TimerCallback

\* C16: a cycle starts only in a step in which updateCryptoTable is called
\* while isFetching is false, and one call starts one cycle; a call made
\* while a cycle is in flight leaves nothing behind, so the step in which
\* that cycle ends, and every other step that is not a call, starts no cycle
\* and no fetch of a new cycle.  Hence the cycles started never outnumber
\* the calls that arrived while isFetching was false.
C16_DroppedTicksNotQueued ==
  [][ /\ ncycles' # ncycles =>
           (Triggered /\ ~isFetching /\ ncycles' = ncycles + 1)
      /\ (isFetching /\ Triggered) => ncycles' = ncycles
      /\ ~Triggered =>
           /\ ncycles' = ncycles
           /\ \A c \in CycleIds :
                /\ rateCall[c].st = "none" => rateCall'[c].st = "none"
                /\ priceCall[c].st = "none" => priceCall'[c].st = "none" ]_vars

\* A callback was dropped during the first cycle, that cycle has ended with
\* a row, and no second cycle has started.
C16_Witness ==
  /\ ticks = 1
  /\ now = TICK_MS
  /\ ncycles = 1
  /\ cycle[1] = "done"
  /\ ~isFetching
  /\ RateInFlight = {}
  /\ PriceInFlight = {}

\* C17: a stored record holds a rate that is a number greater than 0 and a
\* timestamp that is a number not greater than the clock.
C17_CachedRateInvariant ==
  localStorage.k = "obj" =>
    /\ localStorage.rate.t = "num"
    /\ localStorage.rate.v > 0
    /\ localStorage.timestamp.t = "num"
    /\ localStorage.timestamp.v <= now


\* Arguments of formatRub that are not a number, and NaN.
NotNumbers == {Undef, Str, Null, NaN}

\* The texts of the row.
RowTexts == {tbody.price, tbody.volume, tbody.total, tbody.change}

\* C18: formatRub gives the text of 0 for every argument that is not a
\* number and for NaN, never the not-a-number text; so the row of a cycle
\* whose price member is missing shows zero as price and as total, and no row
\* ever shows the not-a-number text.
C18_FormatRubZero ==
  /\ \A x \in NotNumbers :
       /\ formatRub(x) = formatRub(Num(0))
       /\ formatRub(x) = [fmt |-> "rub", n |-> 0]
  /\ tbody.kind = "row" => \A s \in RowTexts : s.fmt \in {"rub", "btc"}
  /\ \A c \in CycleIds :
       (/\ c = ncycles
        /\ cycle[c] = "done"
        /\ priceCall[c].val.priceUsd.t # "num") =>
          /\ tbody.kind = "row"
          /\ tbody.price = [fmt |-> "rub", n |-> 0]
          /\ tbody.total = [fmt |-> "rub", n |-> 0]

\* A cycle whose primary answer has no member last has rendered its row.
C18_Witness ==
  \E c \in CycleIds :
    /\ c = ncycles
    /\ cycle[c] = "done"
    /\ priceCall[c].r1 = [k |-> "body", a |-> Undef, b |-> Num(1)]
    /\ priceCall[c].val.priceUsd = Undef
    /\ tbody.kind = "row"
    /\ tbody.price = [fmt |-> "rub", n |-> 0]
    /\ tbody.volume = [fmt |-> "btc", n |-> 1]


\* In this step cycle c ends, by a row or by the error row.
Ends(c) ==
  /\ cycle[c] \in {"none", "awaiting"}
  /\ cycle'[c] \in {"done", "failed"}

\* Both calls of the cycle that ends in this step have returned.
BothReturned(c) ==
  rateCall'[c].st = "resolved" /\ priceCall'[c].st = "resolved"

\* priceUsd * rate * volume of the cycle that ends in this step; NaN when
\* one of the three is not a number.
TotalValueOf(c) ==
  IF /\ rateCall'[c].val.t = "num"
     /\ priceCall'[c].val.priceUsd.t = "num"
     /\ priceCall'[c].val.volumeBtc.t = "num"
  THEN Num(TotalOf(c))
  ELSE NaN

\* previousTotalRubValue changes only at the end of a cycle whose calls both
\* returned, and then to that cycle's total.
ChangesOnlyWhenBothReturned ==
  previousTotalRubValue' # previousTotalRubValue =>
    \E c \in CycleIds :
      /\ Ends(c)
      /\ BothReturned(c)
      /\ previousTotalRubValue' = TotalValueOf(c)

\* C19 as stated: moreover every cycle that ends in failure and every
\* dropped call leave previousTotalRubValue unchanged.
C19_OnlySuccessChangesPrevious ==
  [][ /\ ChangesOnlyWhenBothReturned
      /\ \A c \in CycleIds :
           (Ends(c) /\ cycle'[c] = "failed") =>
             previousTotalRubValue' = previousTotalRubValue
      /\ (isFetching /\ Triggered) =>
           previousTotalRubValue' = previousTotalRubValue ]_vars

\* C19 amended: the cycles that leave it unchanged are those in which a call
\* threw; a cycle that fails after line 169 has stored its total.
C19_OnlyJoinedCycleChangesPrevious ==
  [][ /\ ChangesOnlyWhenBothReturned
      /\ \A c \in CycleIds :
           EndsByRejection(c) =>
             previousTotalRubValue' = previousTotalRubValue
      /\ \A c \in CycleIds :
           (Ends(c) /\ BothReturned(c)) =>
             previousTotalRubValue' = TotalValueOf(c)
      /\ (isFetching /\ Triggered) =>
           previousTotalRubValue' = previousTotalRubValue ]_vars

\* The second cycle failed on the price side and the total 3 * 95 * 2 of the
\* first cycle is still the previous total.
C19_Witness ==
  /\ ncycles = 2
  /\ cycle[2] = "failed"
  /\ priceCall[2].st = "rejected"
  /\ previousTotalRubValue = Num(570)
  /\ tbody.kind = "error"


\* C20: every write to the cache stores a timestamp at least as large as
\* the timestamp of the entry it overwrites.
C20_TimestampNeverDecreases ==
  [][ (localStorage.k = "obj" /\ localStorage'.k = "obj") =>
        localStorage'.timestamp.v >= localStorage.timestamp.v ]_vars

====
